---------------------------- MODULE Spec2Model ----------------------------
(***************************************************************************)
(* Initialization of the package pypesto.petab                             *)
(* (src/pypesto/petab/__init__.py).  The module body is three statements   *)
(* executed in order by the interpreter:                                   *)
(*                                                                         *)
(*     line  7      from .importer import PetabImporter                    *)
(*     lines 10-15  try: import petab   except ImportError: raise ...      *)
(*     lines 16-21  try: import amici   except ImportError: raise ...      *)
(*                                                                         *)
(* The state is the interpreter's module cache, the namespace of the       *)
(* module being initialized, the position in the module body, the error    *)
(* that ended the initialization, and the environment: which of the three  *)
(* modules can be loaded from disk.  The import statements executed in the *)
(* current initialization are recorded in a history variable.              *)
(***************************************************************************)
EXTENDS Naturals, Sequences, FiniteSets

\* Bound of the model: how many times the import of pypesto.petab is tried.
MaxAttempts == 3

\* The module being initialized and the modules its body imports.
Self == "pypesto.petab"
Importer == "pypesto.petab.importer"
Petab == "petab"
Amici == "amici"
Deps == {Petab, Amici}
Modules == {Importer} \cup Deps

\* The import statements of the module body, in execution order.
BodyOrder == <<Importer, Petab, Amici>>

VARIABLES
    avail,            \* modules that load from disk without raising
    sysModules,       \* the interpreter's module cache (sys.modules)
    namespace,        \* names bound in the namespace of pypesto.petab
    pc,               \* position in the module body, or its final state
    error,            \* the exception that ended the initialization
    probes,           \* history: import statements executed in this attempt
    attempt,          \* number of the current import attempt
    depFailedBefore   \* history: an earlier attempt ended in a guard's raise

vars == <<avail, sysModules, namespace, pc, error, probes, attempt,
          depFailedBefore>>

Final == {"loaded", "failed"}
PCs == {"line7", "line10", "line16"} \cup Final

(***************************************************************************)
(* Error messages, as the sequence of their words (maximal alphanumeric    *)
(* runs of the string literal, case preserved).                            *)
(***************************************************************************)
AmiciGuardMessage ==
    <<"PEtab", "import", "requires", "an", "installation", "of", "amici",
      "https", "github", "com", "icb", "dcm", "amici",
      "Install", "via", "pip3", "install", "amici">>

\* Mutant of PetabGuardMessage: the text of the amici guard pasted into the
\* petab guard.
PetabGuardMessagePasted == AmiciGuardMessage

PetabGuardMessage ==
    <<"PEtab", "import", "requires", "an", "installation", "of", "petab",
      "https", "github", "com", "PEtab", "dev", "PEtab",
      "Install", "via", "pip3", "install", "petab">>

\* The exception of a failed load of the sibling module: not produced by
\* this file, its text is not known here.
ImporterFailure == <<"<load failure of pypesto.petab.importer>">>

NoError == [raisedAt |-> "none", msg |-> <<>>]
GuardLines == {"line13", "line19"}

\* An import statement succeeds when the module is cached or loads from disk.
Loadable(m) == m \in sysModules \/ m \in avail

\* An exception leaves the module body: the interpreter drops the module
\* being initialized from its cache (and only that module).
Raise(line, message) ==
    /\ pc' = "failed"
    /\ error' = [raisedAt |-> line, msg |-> message]
    /\ sysModules' = sysModules \ {Self}
    /\ namespace' = namespace

\* A successful import statement caches the module and binds a name.
Bind(m, name, next) ==
    /\ sysModules' = sysModules \cup {m}
    /\ namespace' = namespace \cup {name}
    /\ pc' = next
    /\ error' = error

Init ==
    /\ avail \in SUBSET Modules
    /\ sysModules = {Self}
    /\ namespace = {}
    /\ pc = "line7"
    /\ error = NoError
    /\ probes = <<>>
    /\ attempt = 1
    /\ depFailedBefore = FALSE

\* Mutant of ImportImporter: "from . import importer" binds the sibling
\* module, not the class.
ImportImporterModuleOnly ==
    /\ pc = "line7"
    /\ probes' = Append(probes, Importer)
    /\ IF Loadable(Importer)
          THEN Bind(Importer, "importer", "line10")
          ELSE Raise("line7", ImporterFailure)
    /\ UNCHANGED <<avail, attempt, depFailedBefore>>

\* line 7: from .importer import PetabImporter (no handler around it)
ImportImporter ==
    /\ pc = "line7"
    /\ probes' = Append(probes, Importer)
    /\ IF Loadable(Importer)
          THEN Bind(Importer, "PetabImporter", "line10")
          ELSE Raise("line7", ImporterFailure)
    /\ UNCHANGED <<avail, attempt, depFailedBefore>>

\* Mutant of TryPetab: a bare "import petab", whose own failure propagates.
TryPetabUnguarded ==
    /\ pc = "line10"
    /\ probes' = Append(probes, Petab)
    /\ IF Loadable(Petab)
          THEN Bind(Petab, "petab", "line16")
          ELSE Raise("line11", <<"No", "module", "named", "petab">>)
    /\ UNCHANGED <<avail, attempt, depFailedBefore>>

\* Mutant of TryPetab: the handler falls back to "petab = None" and goes on.
TryPetabFallback ==
    /\ pc = "line10"
    /\ probes' = Append(probes, Petab)
    /\ IF Loadable(Petab)
          THEN Bind(Petab, "petab", "line16")
          ELSE /\ namespace' = namespace \cup {"petab"}
               /\ pc' = "line16"
               /\ UNCHANGED <<sysModules, error>>
    /\ UNCHANGED <<avail, attempt, depFailedBefore>>

\* lines 10-15: try: import petab / except ImportError: raise ImportError(..)
TryPetab ==
    /\ pc = "line10"
    /\ probes' = Append(probes, Petab)
    /\ IF Loadable(Petab)
          THEN Bind(Petab, "petab", "line16")
          ELSE Raise("line13", PetabGuardMessage)
    /\ UNCHANGED <<avail, attempt, depFailedBefore>>

\* Mutant of TryAmici: the handler swallows the failure ("pass").
TryAmiciSwallowed ==
    /\ pc = "line16"
    /\ probes' = Append(probes, Amici)
    /\ IF Loadable(Amici)
          THEN Bind(Amici, "amici", "loaded")
          ELSE /\ pc' = "loaded"
               /\ UNCHANGED <<sysModules, namespace, error>>
    /\ UNCHANGED <<avail, attempt, depFailedBefore>>

\* lines 16-21: try: import amici / except ImportError: raise ImportError(..)
TryAmici ==
    /\ pc = "line16"
    /\ probes' = Append(probes, Amici)
    /\ IF Loadable(Amici)
          THEN Bind(Amici, "amici", "loaded")
          ELSE Raise("line19", AmiciGuardMessage)
    /\ UNCHANGED <<avail, attempt, depFailedBefore>>

\* A later import statement for pypesto.petab after a failed one: the module
\* is not cached, so its body is executed again from the top in a fresh
\* namespace.  What loads from disk may have changed since the failure (a
\* dependency installed or removed): env is the environment of this attempt.
Reimport(env) ==
    /\ pc = "failed"
    /\ attempt < MaxAttempts
    /\ attempt' = attempt + 1
    /\ avail' = env
    /\ depFailedBefore' = (depFailedBefore \/ error.raisedAt \in GuardLines)
    /\ sysModules' = sysModules \cup {Self}
    /\ namespace' = {}
    /\ pc' = "line7"
    /\ error' = NoError
    /\ probes' = <<>>

Step == ImportImporter \/ TryPetab \/ TryAmici

Next ==
    \/ ImportImporter
    \/ TryPetab
    \/ TryAmici
    \/ \E env \in SUBSET Modules : Reimport(env)

Spec == Init /\ [][Next]_vars

\* The interpreter runs a module body to its end or to its first exception.
FairSpec == Spec /\ WF_vars(Step)

(***************************************************************************)
(* Vocabulary of the properties.                                           *)
(***************************************************************************)
Range(s) == {s[i] : i \in 1..Len(s)}
Probed(m) == m \in Range(probes)
Count(s, m) == Cardinality({i \in 1..Len(s) : s[i] = m})
IsPrefix(s, t) == Len(s) <= Len(t) /\ \A i \in 1..Len(s) : s[i] = t[i]

\* sub occurs in s as a run of consecutive words
Contains(s, sub) ==
    \E k \in 0..Len(s) :
        /\ k + Len(sub) <= Len(s)
        /\ \A i \in 1..Len(sub) : s[k + i] = sub[i]

InstallCommand(dep) == <<"pip3", "install", dep>>
Other(dep) == IF dep = Petab THEN Amici ELSE Petab

\* The guard's error for dependency dep: raised by dep's handler, naming dep
\* and dep's install command.
IsGuardErrorFor(dep) ==
    /\ error.raisedAt = (IF dep = Petab THEN "line13" ELSE "line19")
    /\ Contains(error.msg, <<dep>>)
    /\ Contains(error.msg, InstallCommand(dep))

GuardFailed == pc = "failed" /\ error.raisedAt \in GuardLines

(***************************************************************************)
(* C1.  On guard failure no symbol of the module has become usable: when   *)
(* the petab or amici guard raises, PetabImporter has been neither loaded  *)
(* nor bound in the module's namespace.                                    *)
(***************************************************************************)
C1_NoSymbolOnGuardFailure ==
    GuardFailed =>
        /\ "PetabImporter" \notin namespace
        /\ Importer \notin sysModules

(***************************************************************************)
(* C2.  The load of the sibling importer module is attempted only after    *)
(* the probes of petab and of amici have both succeeded.                   *)
(***************************************************************************)
C2_ReexportAfterChecks ==
    Probed(Importer) =>
        \E i, j, k \in 1..Len(probes) :
            /\ probes[i] = Petab /\ probes[j] = Amici /\ probes[k] = Importer
            /\ i < k /\ j < k
            /\ Loadable(Petab) /\ Loadable(Amici)

(***************************************************************************)
(* C3.  Whenever petab is not loadable, the initialization fails with the  *)
(* error that names petab, and amici is never probed in that               *)
(* initialization.                                                         *)
(***************************************************************************)
C3_GuardOrdering ==
    ~Loadable(Petab) =>
        /\ ~Probed(Amici)
        /\ pc \in Final => (pc = "failed" /\ IsGuardErrorFor(Petab))

(***************************************************************************)
(* C4.  Whenever petab is loadable and amici is not, the initialization    *)
(* fails with the error that names amici, not the one that names petab.    *)
(***************************************************************************)
C4_GuardCompleteness ==
    (pc \in Final /\ Loadable(Petab) /\ ~Loadable(Amici)) =>
        /\ pc = "failed"
        /\ IsGuardErrorFor(Amici)
        /\ ~IsGuardErrorFor(Petab)

(***************************************************************************)
(* C5.  Happy path: when the sibling importer module, petab and amici are  *)
(* all loadable, no step of the initialization raises, and it ends loaded  *)
(* with PetabImporter bound in the namespace of the cached module.         *)
(***************************************************************************)
C5_HappyPath ==
    (\A m \in Modules : Loadable(m)) =>
        /\ pc # "failed"
        /\ error = NoError
        /\ pc = "loaded" => ("PetabImporter" \in namespace /\ Self \in sysModules)

C5_Witness ==
    /\ pc = "loaded"
    /\ "PetabImporter" \in namespace
    /\ probes = BodyOrder

(***************************************************************************)
(* C6.  Re-import: in an attempt made after an earlier attempt ended in a  *)
(* guard's raise, the body starts again from a clean state, petab is       *)
(* checked before amici, and the attempt ends loaded exactly when petab    *)
(* and amici are both loadable at that attempt; otherwise it ends with the *)
(* guard error of the first one missing.                                   *)
(***************************************************************************)
C6_Reimport ==
    depFailedBefore =>
        /\ pc = "line7" => (probes = <<>> /\ namespace = {} /\ error = NoError)
        /\ IsPrefix(probes, BodyOrder)
        /\ pc \in Final =>
              /\ Probed(Petab)
              /\ pc = "loaded" <=> (Loadable(Petab) /\ Loadable(Amici))
              /\ pc = "loaded" => probes = BodyOrder
              /\ ~Loadable(Petab) => IsGuardErrorFor(Petab)
              /\ (Loadable(Petab) /\ ~Loadable(Amici)) => IsGuardErrorFor(Amici)

C6_Witness ==
    /\ depFailedBefore
    /\ pc = "loaded"
    /\ Importer \notin avail

(***************************************************************************)
(* C7.  A guard's error carries the name and the install command of the    *)
(* dependency that is missing, and neither the name nor the install        *)
(* command of the other dependency.                                        *)
(***************************************************************************)
C7_MessageContent ==
    GuardFailed =>
        \E dep \in Deps :
            /\ ~Loadable(dep)
            /\ dep = Amici => Loadable(Petab)
            /\ IsGuardErrorFor(dep)
            /\ ~Contains(error.msg, <<Other(dep)>>)
            /\ ~Contains(error.msg, InstallCommand(Other(dep)))

C7_Witness ==
    /\ GuardFailed
    /\ error.raisedAt = "line13"
    /\ depFailedBefore
    /\ Loadable(Amici)

C9_NoRetryNoFallback ==
    /\ \A m \in Modules : Count(probes, m) <= 1
    /\ \A i \in 1..Len(probes) :
          ~Loadable(probes[i]) =>
              /\ pc = "failed"
              /\ Self \notin sysModules
              /\ i = Len(probes)
    /\ pc = "loaded" => \A m \in Deps : Probed(m) /\ m \in sysModules
    /\ (Probed(Importer) /\ ~Loadable(Importer)) =>
          error = [raisedAt |-> "line7", msg |-> ImporterFailure]

C9_Witness ==
    /\ pc = "failed"
    /\ probes = BodyOrder
    /\ ~Loadable(Amici)
    /\ Self \notin sysModules

(***************************************************************************)
(* C10.  The initialization always terminates, loaded or failed; it ends   *)
(* loaded exactly when the sibling importer module, petab and amici are    *)
(* all loadable, and otherwise failed with the error raised at the first   *)
(* statement, in execution order, whose load fails.                        *)
(***************************************************************************)
FirstFailing ==
    CHOOSE i \in 1..Len(BodyOrder) :
        /\ ~Loadable(BodyOrder[i])
        /\ \A j \in 1..(i - 1) : Loadable(BodyOrder[j])

RaiseLineOf(i) == <<"line7", "line13", "line19">>[i]

OutcomeDetermined ==
    pc \in Final =>
        IF \A m \in Modules : Loadable(m)
           THEN pc = "loaded" /\ error = NoError
           ELSE /\ pc = "failed"
                /\ error.raisedAt = RaiseLineOf(FirstFailing)
                /\ Len(probes) = FirstFailing

C10_TerminatesDetermined ==
    /\ [](pc \in PCs /\ OutcomeDetermined)
    /\ [](pc \notin Final => <>(pc \in Final))

C10_Witness ==
    /\ pc = "failed"
    /\ attempt > 1
    /\ error.raisedAt = "line19"
    /\ Len(probes) = FirstFailing

=============================================================================
